---- MODULE Spec2Model ----
(***************************************************************************)
(* Model of the CNC-Mill backend (src/backend): the MachineController      *)
(* state machine with its job executor threads, the operator commands,     *)
(* the status ingestion from the GRBL link, the SimpleMoveTracker, the     *)
(* GCodeParser, the spindle-token scan, the SpindleShim and the GrblClient *)
(* with its two worker threads.                                            *)
(*                                                                         *)
(* The controller and the link are each followed in detail in              *)
(* specifications of their own.  Spec, SpecSim, SpecRun and SpecOps follow *)
(* the controller and see the link through GrblClient.connected alone (the *)
(* lines handed to send_line are not followed further); SpecLink follows   *)
(* the GrblClient object, its queue and its workers, with the controller   *)
(* reduced to the calls it makes on the link and to the status callback.   *)
(* SpecPreview applies parse_file to every text of a bounded set.          *)
(*                                                                         *)
(* Text is modelled as sequences of one-character strings so that the      *)
(* Python string operations (upper, strip, split, startswith, "in",        *)
(* splitlines, float) are computed the way the code computes them.         *)
(* Floats are modelled by integers plus the values NaN, PosInf and NegInf;  *)
(* voltages are kept in millivolts.                                        *)
(***************************************************************************)
EXTENDS Integers, Sequences, FiniteSets, TLC

(***************************************************************************)
(* Bounds of the model.                                                    *)
(***************************************************************************)
\* number of start_job calls that are accepted in one behaviour (= number of
\* executor threads ever spawned)
MaxJobs == 2

\* number of jog calls in one behaviour
MaxJogs == 1

\* number of lines of a previewed text
MaxPreviewLines == 3

\* number of times the serial device is opened in one behaviour
MaxOpens == 2

\* number of lines submitted to send_line by callers other than a job
MaxSent == 2

\* number of status frames the device sends
MaxFrames == 2

\* number of real-time bytes written to the device
MaxRealtime == 1

(***************************************************************************)
(* Python text primitives.                                                 *)
(***************************************************************************)
LowerChars == <<"a","b","c","d","e","f","g","h","i","j","k","l","m",
                "n","o","p","q","r","s","t","u","v","w","x","y","z">>
UpperChars == <<"A","B","C","D","E","F","G","H","I","J","K","L","M",
                "N","O","P","Q","R","S","T","U","V","W","X","Y","Z">>

\* str.upper() on one character
UpperChar(c) ==
    IF \E i \in 1..26 : LowerChars[i] = c
    THEN UpperChars[CHOOSE i \in 1..26 : LowerChars[i] = c]
    ELSE c

\* str.upper()
Upper(s) == [i \in 1..Len(s) |-> UpperChar(s[i])]

\* the characters str.strip() and str.split() treat as whitespace
IsSpace(c) == c \in {" ", "\t", "\n", "\r", "\f"}

\* the line boundaries of str.splitlines() (form feed is one of them)
IsLineBreak(c) == c \in {"\n", "\r", "\f"}

RECURSIVE LStrip(_)
LStrip(s) == IF s # <<>> /\ IsSpace(Head(s)) THEN LStrip(Tail(s)) ELSE s

RECURSIVE RStrip(_)
RStrip(s) ==
    IF s # <<>> /\ IsSpace(s[Len(s)]) THEN RStrip(SubSeq(s, 1, Len(s) - 1)) ELSE s

\* str.strip()
Strip(s) == RStrip(LStrip(s))

\* str.startswith(p)
StartsWith(s, p) == Len(s) >= Len(p) /\ SubSeq(s, 1, Len(p)) = p

\* p in s  (substring test)
Contains(s, p) ==
    \E i \in 1..(Len(s) - Len(p) + 1) : SubSeq(s, i, i + Len(p) - 1) = p

\* s[1:]
DropFirst(s) == IF s = <<>> THEN <<>> ELSE Tail(s)

\* str.split(): the maximal runs of non-whitespace characters
RECURSIVE SplitFrom(_, _, _)
SplitFrom(s, cur, acc) ==
    IF s = <<>>
    THEN IF cur = <<>> THEN acc ELSE Append(acc, cur)
    ELSE IF IsSpace(Head(s))
         THEN SplitFrom(Tail(s), <<>>, IF cur = <<>> THEN acc ELSE Append(acc, cur))
         ELSE SplitFrom(Tail(s), Append(cur, Head(s)), acc)

Split(s) == SplitFrom(s, <<>>, <<>>)

\* str.splitlines(): a line ends at every line boundary; a trailing boundary
\* does not open a further, empty line
RECURSIVE SplitLinesFrom(_, _, _)
SplitLinesFrom(s, cur, acc) ==
    IF s = <<>>
    THEN IF cur = <<>> THEN acc ELSE Append(acc, cur)
    ELSE IF IsLineBreak(Head(s))
         THEN IF Head(s) = "\r" /\ Len(s) >= 2 /\ s[2] = "\n"
              THEN SplitLinesFrom(Tail(Tail(s)), <<>>, Append(acc, cur))
              ELSE SplitLinesFrom(Tail(s), <<>>, Append(acc, cur))
         ELSE SplitLinesFrom(Tail(s), Append(cur, Head(s)), acc)

SplitLines(s) == SplitLinesFrom(s, <<>>, <<>>)

\* FileStore.line_count: sum(1 for _ in f) over a text-mode file, whose lines
\* end at "\n", "\r" or "\r\n" (universal newlines) and nowhere else
RECURSIVE CountLinesFrom(_, _, _)
CountLinesFrom(s, open, n) ==
    IF s = <<>>
    THEN IF open THEN n + 1 ELSE n
    ELSE IF Head(s) = "\n"
         THEN CountLinesFrom(Tail(s), FALSE, n + 1)
         ELSE IF Head(s) = "\r"
              THEN IF Len(s) >= 2 /\ s[2] = "\n"
                   THEN CountLinesFrom(Tail(Tail(s)), FALSE, n + 1)
                   ELSE CountLinesFrom(Tail(s), FALSE, n + 1)
              ELSE CountLinesFrom(Tail(s), TRUE, n)

line_count(text) == CountLinesFrom(text, FALSE, 0)

(***************************************************************************)
(* float(): the model covers the part of Python's float grammar that the   *)
(* alphabet of the toolpath corpus can spell: an optional sign followed by *)
(* decimal digits, or by NAN.  Every other token raises ValueError.        *)
(***************************************************************************)
\* the float value nan, kept apart from every number the model computes with
NaN == 0 - 1000000

Digits == <<"0","1","2","3","4","5","6","7","8","9">>
IsDigit(c) == \E i \in 1..10 : Digits[i] = c
DigitVal(c) == (CHOOSE i \in 1..10 : Digits[i] = c) - 1

RECURSIVE DigitsVal(_, _)
DigitsVal(s, acc) ==
    IF s = <<>> THEN acc ELSE DigitsVal(Tail(s), 10 * acc + DigitVal(Head(s)))

\* float(tok): [ok |-> FALSE] stands for the ValueError
ParseFloat(tok) ==
    LET signed == tok # <<>> /\ Head(tok) \in {"+", "-"}
        body   == IF signed THEN Tail(tok) ELSE tok
        neg    == signed /\ Head(tok) = "-"
    IN  IF body # <<>> /\ \A i \in 1..Len(body) : IsDigit(body[i])
        THEN [ok |-> TRUE, v |-> IF neg THEN 0 - DigitsVal(body, 0) ELSE DigitsVal(body, 0)]
        ELSE IF body = <<"N","A","N">>
             THEN [ok |-> TRUE, v |-> NaN]
             ELSE [ok |-> FALSE, v |-> 0]

\* float addition
FAdd(a, b) == IF a = NaN \/ b = NaN THEN NaN ELSE a + b

\* a > b and a < b on floats: every comparison with nan is false
FGt(a, b) == a # NaN /\ b # NaN /\ a > b
FLt(a, b) == a # NaN /\ b # NaN /\ a < b

\* Python's max(a, b) and min(a, b): the first argument unless the second is
\* strictly greater (smaller)
PyMax(a, b) == IF FGt(b, a) THEN b ELSE a
PyMin(a, b) == IF FLt(b, a) THEN b ELSE a

\* float("inf") and float("-inf"): beyond every number the model computes with
PosInf == 2000000
NegInf == 0 - PosInf

(***************************************************************************)
(* Configuration (backend/config.py) at its defaults.                      *)
(***************************************************************************)
spindle_max_rpm == 24000
spindle_min_rpm == 0
\* Config.dac_vref (5.0 V) in millivolts
dac_vref_mV == 5000

(***************************************************************************)
(* The stores the controller reads: toolpath files and tool definitions.   *)
(***************************************************************************)
FileText ==
    [ a  |-> <<"G","9","0","\n","G","0"," ","X","1","0"," ","Y","0","\n">>,
      b  |-> <<"M","3"," ","S","3","0","0","0","0","\n","\n",
               "g","9","1"," ","g","1"," ","x","1","\n">>,
      bad |-> <<"M","4"," ","S","N","A","N","\n","G","1"," ","X","1","O","\n">>,
      ff  |-> <<"G","0"," ","X","1","\f","G","0"," ","X","2","\n">>,
      m  |-> <<"M","3"," ","S","1","2","0","0","0","\n","G","1"," ","X","1","\n",
               "M","5","\n">>,
      c  |-> <<"G","0"," ","X","1"," ",";"," ","X","5","\n">> ]

\* the files FileStore holds (path.exists() is true for exactly these)
StoredFiles == DOMAIN FileText

\* a filename no stored file has
MissingFile == "missing"

\* path.read_text(...).splitlines() of each stored file
Lines == [f \in StoredFiles |-> SplitLines(FileText[f])]

\* the rows of the tools table: id -> (rpm, direction)
Tools == (1 :> [rpm |-> 18000, direction |-> "CW"])

\* tool_id values of a JobRequest: 0 stands for None, 1 is stored, 2 is not
ToolIds == {0, 1, 2}

\* ToolStore.get_tool guarded as in set_tool: None (0) when tool_id is falsy
\* or names no row
get_tool(tool_id) == IF tool_id # 0 /\ tool_id \in DOMAIN Tools THEN tool_id ELSE 0

(***************************************************************************)
(* SimpleMoveTracker.                                                      *)
(***************************************************************************)
\* the loop over the tokens of a G0/G1 line: every token that starts with
\* X, Y or Z sets (absolute) or offsets (incremental) its component of the
\* target; a token float() rejects raises (ok = FALSE)
RECURSIVE MoveTarget(_, _, _, _)
MoveTarget(tokens, position, absolute, target) ==
    IF tokens = <<>>
    THEN [ok |-> TRUE, pos |-> target]
    ELSE LET tok == Head(tokens)
             ax  == IF StartsWith(tok, <<"X">>) THEN 1
                    ELSE IF StartsWith(tok, <<"Y">>) THEN 2
                    ELSE IF StartsWith(tok, <<"Z">>) THEN 3 ELSE 0
             p   == ParseFloat(DropFirst(tok))
         IN  IF ax = 0
             THEN MoveTarget(Tail(tokens), position, absolute, target)
             ELSE IF ~p.ok
                  THEN [ok |-> FALSE, pos |-> target]
                  ELSE MoveTarget(Tail(tokens), position, absolute,
                           [target EXCEPT ![ax] =
                               IF absolute THEN p.v ELSE FAdd(position[ax], p.v)])

NewTracker == [position |-> <<0, 0, 0>>, absolute |-> TRUE]

\* SimpleMoveTracker.consume(line): the tracker after the call, and whether
\* the call returned (ok) or raised ValueError
consume(tr, line) ==
    LET code == Upper(line)
        abs1 == IF Contains(code, <<"G","9","0">>) THEN TRUE ELSE tr.absolute
        abs2 == IF Contains(code, <<"G","9","1">>) THEN FALSE ELSE abs1
    IN  IF StartsWith(code, <<"G","0">>) \/ StartsWith(code, <<"G","1">>)
        THEN LET m == MoveTarget(Split(code), tr.position, abs2, tr.position)
             IN  [ok |-> m.ok,
                  tr |-> [position |-> IF m.ok THEN m.pos ELSE tr.position,
                          absolute |-> abs2]]
        ELSE [ok |-> TRUE, tr |-> [position |-> tr.position, absolute |-> abs2]]

(***************************************************************************)
(* GCodeParser.                                                            *)
(***************************************************************************)
\* s.split(ch)[0]: the part of s before the first ch (all of s without one)
RECURSIVE Before(_, _)
Before(s, ch) ==
    IF s = <<>> \/ Head(s) = ch THEN <<>> ELSE <<Head(s)>> \o Before(Tail(s), ch)

\* GCodeParser._extract_move(line) from the parser's position and mode
extract_move(line, position, absolute) ==
    MoveTarget(Split(line), position, absolute, position)

\* the loop of parse_file over the physical lines; ok = FALSE stands for the
\* ValueError that float() raises out of _extract_move
RECURSIVE ParseLines(_, _, _, _)
ParseLines(lines, position, absolute, segments) ==
    IF lines = <<>>
    THEN [ok |-> TRUE, segments |-> segments, absolute |-> absolute]
    ELSE LET line == Strip(Before(Before(Head(lines), ";"), "("))
             code == Upper(line)
             abs1 == IF Contains(code, <<"G","9","0">>) THEN TRUE ELSE absolute
             abs2 == IF Contains(code, <<"G","9","1">>) THEN FALSE ELSE abs1
             mv   == extract_move(code, position, abs2)
         IN  IF line = <<>>
             THEN ParseLines(Tail(lines), position, absolute, segments)
             ELSE IF StartsWith(code, <<"G","0">>) \/ StartsWith(code, <<"G","1">>)
                  THEN IF mv.ok
                       THEN ParseLines(Tail(lines), mv.pos, abs2,
                                Append(segments,
                                       [start |-> position, end |-> mv.pos,
                                        rapid |-> StartsWith(code, <<"G","0">>)]))
                       ELSE [ok |-> FALSE, segments |-> segments, absolute |-> abs2]
                  ELSE ParseLines(Tail(lines), position, abs2, segments)

\* the bounding box after the segments in the order they were appended: per
\* axis min(bbox_min[i], start[i], end[i]) and max(bbox_max[i], start[i], end[i])
RECURSIVE Extents(_, _, _)
Extents(segments, bbox_min, bbox_max) ==
    IF segments = <<>>
    THEN [bbox_min |-> bbox_min, bbox_max |-> bbox_max]
    ELSE LET s == Head(segments)
             lo(i) == PyMin(PyMin(bbox_min[i], s.start[i]), s.end[i])
             hi(i) == PyMax(PyMax(bbox_max[i], s.start[i]), s.end[i])
         IN  Extents(Tail(segments), <<lo(1), lo(2), lo(3)>>, <<hi(1), hi(2), hi(3)>>)

\* GCodeParser.parse_file on a file's text: the Preview (segments and bounding
\* box, the box zeroed when bbox_min[0] is still inf) and the parser's mode
\* after the scan
parse_file(text) ==
    LET r == ParseLines(SplitLines(text), <<0, 0, 0>>, TRUE, <<>>)
        e == Extents(r.segments, <<PosInf, PosInf, PosInf>>, <<NegInf, NegInf, NegInf>>)
        untouched == e.bbox_min[1] = PosInf
    IN  [ok |-> r.ok, segments |-> r.segments, absolute |-> r.absolute,
         bbox_min |-> IF untouched THEN <<0, 0, 0>> ELSE e.bbox_min,
         bbox_max |-> IF untouched THEN <<0, 0, 0>> ELSE e.bbox_max]

(***************************************************************************)
(* Spindle-token scan and SpindleShim.                                     *)
(***************************************************************************)
\* the direction _handle_spindle_tokens reads off a line ("none": no M3/M4/M5)
SpindleDirOf(code) ==
    IF Contains(code, <<"M","3">>) THEN "CW"
    ELSE IF Contains(code, <<"M","4">>) THEN "CCW"
    ELSE IF Contains(code, <<"M","5">>) THEN "OFF"
    ELSE "none"

\* the rpm _handle_spindle_tokens reads off a line: the float after the S of
\* the first token that starts with S; any exception leaves it None
SpindleRpmOf(code) ==
    LET toks == SelectSeq(Split(code), LAMBDA t : StartsWith(t, <<"S">>))
    IN  IF Contains(code, <<"S">>) /\ toks # <<>>
        THEN LET p == ParseFloat(DropFirst(toks[1]))
             IN  [some |-> p.ok, v |-> p.v]
        ELSE [some |-> FALSE, v |-> 0]

\* min(max(rpm, min_rpm), max_rpm)
RpmClamped(rpm) == PyMin(PyMax(rpm, spindle_min_rpm), spindle_max_rpm)

\* rpm_clamped / max_rpm * vref, in millivolts
ShimVolts(rpm) ==
    LET c == RpmClamped(rpm)
    IN  IF c = NaN THEN NaN ELSE (c * dac_vref_mV) \div spindle_max_rpm

\* SpindleShim.apply(rpm, direction): what the sink holds after
\* set_direction(direction) and set_voltage(volts); rpm records the argument
\* and calls the order in which the two operations of the sink were called
apply(rpm, direction) ==
    [rpm |-> rpm, dir |-> direction, volts |-> ShimVolts(rpm),
     calls |-> <<"set_direction", "set_voltage">>]

(***************************************************************************)
(* State.                                                                  *)
(***************************************************************************)
VARIABLES
    state,         \* MachineController.state (MachineState), guarded by _lock
    stop_flag,     \* MachineController._stop_flag (threading.Event)
    vacuum,        \* what the vacuum sink was last set to
    vfd,           \* what the spindle sink was last set to, and from which rpm
    move_tracker,  \* MachineController._move_tracker
    connected,     \* GrblClient.connected
    job_threads,   \* the executor threads (_run_job) spawned so far, in order
    sj,            \* the start_job call in progress, if any
    stop_pc,       \* the stop call in progress: "idle" or "lock"
    sj_result,     \* how the latest start_job call answered
    grbl,          \* the GrblClient object apart from its connected flag
    jog_call,      \* the jog calls made so far and how the latest answered
    preview        \* the preview request: the file text and parse_file's answer

vars == <<state, stop_flag, vacuum, vfd, move_tracker, connected,
          job_threads, sj, stop_pc, sj_result, grbl, jog_call, preview>>

\* what the job actions of the controller never touch
others == <<grbl, jog_call, preview>>

Statuses == {"Idle", "Running", "Paused", "Homing", "Alarm", "Stopped", "Complete"}

\* job_file = None
NoFile == "None"

SjIdle == [pc |-> "idle", file |-> NoFile, tool_id |-> 0, under_lock |-> <<>>]

Executors == 1..Len(job_threads)

\* the raw line an executor is at
RawLine(t) == Lines[t.file][t.idx]

\* an executor thread that has not returned from _run_job (and has not died)
Alive(t) == t.pc \notin {"done", "crashed"}

\* an executor inside the for loop of _run_job
InLoop(t) == t.pc \in {"head", "gate", "post", "xfer", "setline"}

\* GrblClient.__init__ (connected apart):
\*   ser        self.ser: "none", an "open" device, or a "closed" one
\*   running    self._running
\*   rx, tx     the ingress and egress worker threads started so far
\*   tx_queue   self._tx_queue
\*   wire       what was written to the device, in the order written: the
\*              number of a queued line (1, 2, ...), and for a real-time byte
\*              minus the number of lines submitted before its call
\*   submitted  how many lines callers have passed to send_line (a line is
\*              named by its place in that order)
\*   received   how many status frames the workers have read (a frame is
\*              named by its place in that order)
\*   delivered  the frame handed to the status callback last
\*   opens      how many times the device was opened
\*   connect_pc the connect call in progress: "idle" or "settle"
\*   answer     how the latest connect call ended: "returned" or "raised"
NewGrbl ==
    [ser |-> "none", running |-> FALSE, rx |-> <<>>, tx |-> <<>>,
     tx_queue |-> <<>>, wire |-> <<>>, submitted |-> 0, received |-> 0,
     delivered |-> 0, opens |-> 0, connect_pc |-> "idle", answer |-> "none"]

\* no preview requested
NoPreview == [pc |-> "none", text |-> <<>>, ok |-> TRUE, segments |-> <<>>,
              absolute |-> TRUE, bbox_min |-> <<0, 0, 0>>, bbox_max |-> <<0, 0, 0>>]

\* the controller and its link after construction
Constructed ==
    /\ state = [status |-> "Idle", machine_pos |-> <<0, 0, 0>>,
                work_offset |-> <<0, 0, 0>>, feed_rate |-> 0,
                spindle_rpm |-> 0, spindle_dir |-> "OFF", tool |-> 0,
                current_line |-> 0, total_lines |-> 0, job_file |-> NoFile]
    /\ stop_flag = FALSE
    /\ vacuum = FALSE
    /\ vfd = [rpm |-> 0, dir |-> "OFF", volts |-> 0, calls |-> <<>>]
    /\ move_tracker = NewTracker
    /\ connected = FALSE
    /\ job_threads = <<>>
    /\ sj = SjIdle
    /\ stop_pc = "idle"
    /\ sj_result = "none"
    /\ grbl = NewGrbl
    /\ jog_call = [n |-> 0, result |-> "none"]

Init == Constructed /\ preview = NoPreview

(***************************************************************************)
(* GrblClient, as far as the controller sees it.                           *)
(***************************************************************************)
\* GrblClient.realtime_command: a write to the device that fails closes the
\* link; the call never raises and does nothing when not connected
realtime_command(io_ok) == connected' = (connected /\ io_ok)

\* GrblClient.connect (not in simulation): the link comes up
connect ==
    /\ ~connected
    /\ connected' = TRUE
    /\ UNCHANGED <<state, stop_flag, vacuum, vfd, move_tracker,
                   job_threads, sj, stop_pc, sj_result, others>>

\* GrblClient.close, called by a worker whose read or write failed
close ==
    /\ connected
    /\ connected' = FALSE
    /\ UNCHANGED <<state, stop_flag, vacuum, vfd, move_tracker,
                   job_threads, sj, stop_pc, sj_result, others>>

\* the state word of a status frame -> the reported status (_parse_status)
StateWords == {"Idle", "Run", "Hold", "Home", "Alarm", "Door"}

ReportedStatus(word) ==
    CASE word = "Idle"  -> "Idle"
      [] word = "Run"   -> "Running"
      [] word = "Hold"  -> "Paused"
      [] word = "Home"  -> "Homing"
      [] word = "Alarm" -> "Alarm"
      [] OTHER          -> "Idle"

\* MachineController._ingest_status on a frame that carries a state word only
\* (the ingress worker delivers frames while the link is up)
ingest_status(word) ==
    /\ connected
    /\ state' = [state EXCEPT !.status = ReportedStatus(word)]
    /\ UNCHANGED <<stop_flag, vacuum, vfd, move_tracker, connected,
                   job_threads, sj, stop_pc, sj_result, others>>

(***************************************************************************)
(* MachineController.start_job, one step per section of the method.        *)
(***************************************************************************)
\* start_job with the status check reduced to Running (a paused job is not
\* seen as a job in progress)
\* what start_job does between taking and releasing the machine-state lock
\* (lines 112-118), in order; line_count opens and reads the file
StartJobLocked ==
    <<"read status", "write status", "write job_file", "write current_line",
      "file read", "write total_lines">>

start_job_ignoring_paused(filename, tool_id) ==
    /\ sj.pc = "idle"
    /\ IF filename \notin StoredFiles
       THEN /\ sj_result' = "NotFound"
            /\ UNCHANGED <<state, sj>>
       ELSE IF state.status \in {"Running"}
            THEN /\ sj_result' = "InvalidState"
                 /\ UNCHANGED <<state, sj>>
            ELSE /\ Len(job_threads) < MaxJobs
                 /\ state' = [state EXCEPT !.status = "Running",
                                           !.job_file = filename,
                                           !.current_line = 0,
                                           !.total_lines = line_count(FileText[filename])]
                 /\ sj' = [pc |-> "set_tool", file |-> filename, tool_id |-> tool_id,
                           under_lock |-> StartJobLocked]
                 /\ sj_result' = "accepted"
    /\ UNCHANGED <<stop_flag, vacuum, vfd, move_tracker, connected,
                   job_threads, stop_pc, others>>

\* lines 109-118: the existence check, then under the lock the status check
\* and the four job fields
start_job(filename, tool_id) ==
    /\ sj.pc = "idle"
    /\ IF filename \notin StoredFiles
       THEN /\ sj_result' = "NotFound"
            /\ UNCHANGED <<state, sj>>
       ELSE IF state.status \in {"Running", "Paused"}
            THEN /\ sj_result' = "InvalidState"
                 /\ UNCHANGED <<state, sj>>
            ELSE /\ Len(job_threads) < MaxJobs
                 /\ state' = [state EXCEPT !.status = "Running",
                                           !.job_file = filename,
                                           !.current_line = 0,
                                           !.total_lines = line_count(FileText[filename])]
                 /\ sj' = [pc |-> "set_tool", file |-> filename, tool_id |-> tool_id,
                           under_lock |-> StartJobLocked]
                 /\ sj_result' = "accepted"
    /\ UNCHANGED <<stop_flag, vacuum, vfd, move_tracker, connected,
                   job_threads, stop_pc, others>>

\* lines 119-125: set_tool (lines 102-106); with a tool, its rpm and direction
\* into the state and through the shim; the vacuum on
start_job_tool ==
    /\ sj.pc = "set_tool"
    /\ LET id == get_tool(sj.tool_id)
       IN  IF id # 0
           THEN /\ state' = [state EXCEPT !.tool = id,
                                          !.spindle_rpm = Tools[id].rpm,
                                          !.spindle_dir = Tools[id].direction]
                /\ vfd' = apply(Tools[id].rpm, Tools[id].direction)
           ELSE /\ state' = [state EXCEPT !.tool = 0]
                /\ UNCHANGED vfd
    /\ vacuum' = TRUE
    /\ sj' = [sj EXCEPT !.pc = "spawn"]
    /\ UNCHANGED <<stop_flag, move_tracker, connected, job_threads, stop_pc, sj_result, others>>

\* lines 126-130: clear the stop flag, read the lines, a fresh move tracker,
\* spawn the executor
start_job_spawn ==
    /\ sj.pc = "spawn"
    /\ stop_flag' = FALSE
    /\ move_tracker' = NewTracker
    /\ job_threads' = Append(job_threads,
                          [pc |-> "head", idx |-> 1, file |-> sj.file, stopped |-> "no"])
    /\ sj' = SjIdle
    /\ UNCHANGED <<state, vacuum, vfd, connected, stop_pc, sj_result, others>>

(***************************************************************************)
(* MachineController._run_job: one executor thread e.                      *)
(*   head    line 134, the stop check at the loop head                     *)
(*   gate    lines 136-143, the pause gate                                 *)
(*   post    lines 144-149, the stop check after the gate, the blank-line  *)
(*           skip and the spindle-token scan                               *)
(*   xfer    lines 150-157, send the line or feed the move tracker         *)
(*   setline lines 158-160, current_line when the link is connected        *)
(*   final   lines 161-165, the status at loop exit                        *)
(*   dwell   lines 166-167, the dwell and the vacuum off                   *)
(* The field stopped records whether stop() was called while the thread    *)
(* was in its loop: "yes" when it had no line past the stop checks (or has *)
(* finished the one it had), "inflight" while it finishes that line.       *)
(***************************************************************************)
\* _handle_spindle_tokens(line): the state after the locked update, and the
\* sink after the shim was applied to the state's rpm and direction
handle_spindle_tokens(st, line) ==
    LET code == Upper(line)
        d    == SpindleDirOf(code)
        r    == SpindleRpmOf(code)
        st1  == [st EXCEPT !.spindle_rpm = IF r.some THEN r.v ELSE @,
                           !.spindle_dir = IF d # "none" THEN d ELSE @]
    IN  [state |-> st1, vfd |-> apply(st1.spindle_rpm, st1.spindle_dir)]

\* the thread once the line it was at is finished
NextLine(t) ==
    [t EXCEPT !.pc = "head", !.idx = @ + 1,
              !.stopped = IF @ = "inflight" THEN "yes" ELSE @]

run_job_head(e) ==
    /\ e \in Executors
    /\ job_threads[e].pc = "head"
    /\ job_threads' = [job_threads EXCEPT ![e].pc =
           IF job_threads[e].idx > Len(Lines[job_threads[e].file]) \/ stop_flag
           THEN "final" ELSE "gate"]
    /\ UNCHANGED <<state, stop_flag, vacuum, vfd, move_tracker, connected,
                   sj, stop_pc, sj_result, others>>

\* one round of the pause gate; while paused the thread sleeps and stays
run_job_gate(e) ==
    /\ e \in Executors
    /\ job_threads[e].pc = "gate"
    /\ job_threads' = [job_threads EXCEPT ![e].pc =
           IF stop_flag \/ state.status # "Paused" THEN "post" ELSE "gate"]
    /\ UNCHANGED <<state, stop_flag, vacuum, vfd, move_tracker, connected,
                   sj, stop_pc, sj_result, others>>

run_job_post(e) ==
    /\ e \in Executors
    /\ job_threads[e].pc = "post"
    /\ LET t    == job_threads[e]
           line == Strip(RawLine(t))
           h    == handle_spindle_tokens(state, line)
       IN  IF stop_flag
           THEN /\ job_threads' = [job_threads EXCEPT ![e].pc = "final"]
                /\ UNCHANGED <<state, vfd>>
           ELSE IF line = <<>>
                THEN /\ job_threads' = [job_threads EXCEPT ![e] = NextLine(t)]
                     /\ UNCHANGED <<state, vfd>>
                ELSE /\ state' = h.state
                     /\ vfd' = h.vfd
                     /\ job_threads' = [job_threads EXCEPT ![e].pc = "xfer"]
    /\ UNCHANGED <<stop_flag, vacuum, move_tracker, connected, sj, stop_pc, sj_result, others>>

\* the enqueue with current_line written in the same step
run_job_send_setting_line(e) ==
    /\ e \in Executors
    /\ job_threads[e].pc = "xfer"
    /\ connected
    /\ state' = [state EXCEPT !.current_line = job_threads[e].idx]
    /\ job_threads' = [job_threads EXCEPT ![e].pc = "setline"]
    /\ UNCHANGED <<stop_flag, vacuum, vfd, move_tracker, connected,
                   sj, stop_pc, sj_result, others>>

\* link connected: grbl.send_line(line)
run_job_send(e) ==
    /\ e \in Executors
    /\ job_threads[e].pc = "xfer"
    /\ connected
    /\ job_threads' = [job_threads EXCEPT ![e].pc = "setline"]
    /\ UNCHANGED <<state, stop_flag, vacuum, vfd, move_tracker, connected,
                   sj, stop_pc, sj_result, others>>

\* link connected: current_line = idx, then the 2 ms dwell
run_job_setline(e) ==
    /\ e \in Executors
    /\ job_threads[e].pc = "setline"
    /\ state' = [state EXCEPT !.current_line = job_threads[e].idx]
    /\ job_threads' = [job_threads EXCEPT ![e] = NextLine(job_threads[e])]
    /\ UNCHANGED <<stop_flag, vacuum, vfd, move_tracker, connected,
                   sj, stop_pc, sj_result, others>>

\* link not connected: the move tracker consumes the line; machine_pos and
\* current_line under the lock.  A ValueError raised by consume is caught
\* nowhere: it ends the thread.
run_job_consume(e) ==
    /\ e \in Executors
    /\ job_threads[e].pc = "xfer"
    /\ ~connected
    /\ LET t == job_threads[e]
           r == consume(move_tracker, Strip(RawLine(t)))
       IN  /\ move_tracker' = r.tr
           /\ IF r.ok
              THEN /\ state' = [state EXCEPT !.machine_pos = r.tr.position,
                                             !.current_line = t.idx]
                   /\ job_threads' = [job_threads EXCEPT ![e] = NextLine(t)]
              ELSE /\ job_threads' = [job_threads EXCEPT ![e].pc = "crashed"]
                   /\ UNCHANGED state
    /\ UNCHANGED <<stop_flag, vacuum, vfd, connected, sj, stop_pc, sj_result, others>>

run_job_final(e) ==
    /\ e \in Executors
    /\ job_threads[e].pc = "final"
    /\ state' = [state EXCEPT !.status = IF stop_flag THEN "Stopped" ELSE "Complete"]
    /\ job_threads' = [job_threads EXCEPT ![e].pc = "dwell"]
    /\ UNCHANGED <<stop_flag, vacuum, vfd, move_tracker, connected,
                   sj, stop_pc, sj_result, others>>

run_job_vacuum_off(e) ==
    /\ e \in Executors
    /\ job_threads[e].pc = "dwell"
    /\ vacuum' = FALSE
    /\ job_threads' = [job_threads EXCEPT ![e].pc = "done"]
    /\ UNCHANGED <<state, stop_flag, vfd, move_tracker, connected,
                   sj, stop_pc, sj_result, others>>

(***************************************************************************)
(* The other operator commands.                                            *)
(***************************************************************************)
\* pause without its status test
pause_unguarded(io_ok) ==
    /\ realtime_command(io_ok)
    /\ state' = [state EXCEPT !.status = "Paused"]
    /\ UNCHANGED <<stop_flag, vacuum, vfd, move_tracker, job_threads,
                   sj, stop_pc, sj_result, others>>

pause(io_ok) ==
    /\ realtime_command(io_ok)
    /\ state' = [state EXCEPT !.status = IF @ = "Running" THEN "Paused" ELSE @]
    /\ UNCHANGED <<stop_flag, vacuum, vfd, move_tracker, job_threads,
                   sj, stop_pc, sj_result, others>>

resume(io_ok) ==
    /\ realtime_command(io_ok)
    /\ state' = [state EXCEPT !.status = IF @ = "Paused" THEN "Running" ELSE @]
    /\ UNCHANGED <<stop_flag, vacuum, vfd, move_tracker, job_threads,
                   sj, stop_pc, sj_result, others>>

\* how stop() finds an executor: with no line past the stop checks (in its
\* loop, or about to set the exit status), or finishing the line that is
MarkStopped(t) ==
    [t EXCEPT !.stopped = IF t.pc \in {"head", "gate", "post", "final"} THEN "yes"
                          ELSE IF t.pc \in {"xfer", "setline"} THEN "inflight"
                          ELSE @]

\* stop(), lines 184-186: the stop flag, then the soft reset
stop_signal(io_ok) ==
    /\ stop_pc = "idle"
    /\ stop_flag' = TRUE
    /\ realtime_command(io_ok)
    /\ job_threads' = [e \in Executors |-> MarkStopped(job_threads[e])]
    /\ stop_pc' = "lock"
    /\ UNCHANGED <<state, vacuum, vfd, move_tracker, sj, sj_result, others>>

\* stop(), lines 187-188
stop_lock ==
    /\ stop_pc = "lock"
    /\ state' = [state EXCEPT !.status = "Stopped"]
    /\ stop_pc' = "idle"
    /\ UNCHANGED <<stop_flag, vacuum, vfd, move_tracker, connected,
                   job_threads, sj, sj_result, others>>

\* home(): "$H" on the line channel when connected, then the status
home ==
    /\ state' = [state EXCEPT !.status = "Homing"]
    /\ UNCHANGED <<stop_flag, vacuum, vfd, move_tracker, connected,
                   job_threads, sj, stop_pc, sj_result, others>>

\* MachineController.snapshot(): a copy of the state, taken under the lock
snapshot == state

\* the offsets set_work_offset is called with
Offsets == {<<0, 0, 0>>, <<1, 2, 3>>}

\* set_work_offset that also subtracts the offset from machine_pos
set_work_offset_shifting_pos(offset) ==
    /\ state' = [state EXCEPT !.work_offset = offset,
                              !.machine_pos = [i \in 1..3 |-> @[i] - offset[i]]]
    /\ UNCHANGED <<stop_flag, vacuum, vfd, move_tracker, connected,
                   job_threads, sj, stop_pc, sj_result, others>>

\* set_work_offset: the offset under the lock; the G10 line on the line
\* channel when connected
set_work_offset(offset) ==
    /\ state' = [state EXCEPT !.work_offset = offset]
    /\ UNCHANGED <<stop_flag, vacuum, vfd, move_tracker, connected,
                   job_threads, sj, stop_pc, sj_result, others>>

\* the axis and delta arguments jog is called with
JogAxes == {<<"x">>, <<"Y">>, <<"z">>, <<"a">>}
JogDeltas == {2, 0 - 3}

\* {"X": 0, "Y": 1, "Z": 2}[axis_norm], as a 1-based index (0: not an axis)
AxisIndex(axis_norm) ==
    IF axis_norm = <<"X">> THEN 1
    ELSE IF axis_norm = <<"Y">> THEN 2
    ELSE IF axis_norm = <<"Z">> THEN 3 ELSE 0

\* jog with the delta added to the component after the one named
jog_next_axis(axis, delta) ==
    /\ jog_call.n < MaxJogs
    /\ LET i == AxisIndex(Upper(axis))
       IN  IF i = 0
           THEN /\ jog_call' = [n |-> jog_call.n + 1, result |-> "InvalidArgument"]
                /\ UNCHANGED state
           ELSE /\ jog_call' = [n |-> jog_call.n + 1, result |-> "ok"]
                /\ IF connected
                   THEN UNCHANGED state
                   ELSE state' = [state EXCEPT !.machine_pos[(i % 3) + 1] = FAdd(@, delta)]
    /\ UNCHANGED <<stop_flag, vacuum, vfd, move_tracker, connected,
                   job_threads, sj, stop_pc, sj_result, grbl, preview>>

\* jog: ValueError for an axis other than X, Y, Z; the $J line on the line
\* channel when connected; else the delta added to machine_pos under the lock
jog(axis, delta) ==
    /\ jog_call.n < MaxJogs
    /\ LET i == AxisIndex(Upper(axis))
       IN  IF i = 0
           THEN /\ jog_call' = [n |-> jog_call.n + 1, result |-> "InvalidArgument"]
                /\ UNCHANGED state
           ELSE /\ jog_call' = [n |-> jog_call.n + 1, result |-> "ok"]
                /\ IF connected
                   THEN UNCHANGED state
                   ELSE state' = [state EXCEPT !.machine_pos[i] = FAdd(@, delta)]
    /\ UNCHANGED <<stop_flag, vacuum, vfd, move_tracker, connected,
                   job_threads, sj, stop_pc, sj_result, grbl, preview>>

(***************************************************************************)
(* The preview route: parse_file on a stored text.                         *)
(***************************************************************************)
\* the physical lines previewed texts are made of
PreviewLines ==
    { <<"G","0"," ","X","1">>,
      <<"g","1"," ","y","2"," ",";","c">>,
      <<"G","1","0"," ","P","1">>,
      <<"M","3"," ","S","1","2","0","0","0">>,
      <<"(","c",")"," ","G","0"," ","X","3">>,
      <<"G","9","1">>,
      <<"G","1"," ","X","N","A","N">>,
      <<"G","9","1"," ","G","9","0">>,
      <<>> }

\* the text of a file with the given lines
RECURSIVE JoinLines(_)
JoinLines(ls) ==
    IF ls = <<>> THEN <<>> ELSE Head(ls) \o <<"\n">> \o JoinLines(Tail(ls))

PreviewTexts ==
    { JoinLines(ls) : ls \in UNION { [1..n -> PreviewLines] : n \in 1..MaxPreviewLines } }

\* GET /files/{filename}/preview on an existing file
preview_file ==
    /\ preview.pc = "request"
    /\ LET r == parse_file(preview.text)
       IN  preview' = [pc |-> "done", text |-> preview.text,
                       ok |-> r.ok, segments |-> r.segments,
                       absolute |-> r.absolute,
                       bbox_min |-> r.bbox_min, bbox_max |-> r.bbox_max]
    /\ UNCHANGED <<state, stop_flag, vacuum, vfd, move_tracker, connected,
                   job_threads, sj, stop_pc, sj_result, grbl, jog_call>>

(***************************************************************************)
(* GrblClient in detail: the device, the two workers, the line channel.    *)
(***************************************************************************)
\* what the link's own steps leave alone
job_vars == <<stop_flag, vacuum, vfd, move_tracker, job_threads, sj, stop_pc,
              sj_result, jog_call, preview>>

\* a worker thread as started by connect
RxStarted == [pc |-> "loop", frame |-> 0, word |-> "none"]
TxStarted == [pc |-> "loop", line |-> 0]

RxWorkers == 1..Len(grbl.rx)
TxWorkers == 1..Len(grbl.tx)

\* GrblClient.close() on the object (connected is set to False with it)
Closed(g) ==
    [g EXCEPT !.running = FALSE,
              !.ser = IF @ = "none" THEN "none" ELSE "closed"]

\* the loop condition of both workers: self._running and self.ser
Serving == grbl.running /\ grbl.ser # "none"

\* connect(), lines 28-40: return when connected; open the device (an
\* exception of serial.Serial leaves the call); the flags; the two workers
connect_open(io_ok) ==
    /\ grbl.connect_pc = "idle"
    /\ IF connected
       THEN /\ grbl' = [grbl EXCEPT !.answer = "returned"]
            /\ UNCHANGED connected
       ELSE IF ~io_ok
            THEN /\ grbl' = [grbl EXCEPT !.answer = "raised"]
                 /\ UNCHANGED connected
            ELSE /\ grbl.opens < MaxOpens
                 /\ connected' = TRUE
                 /\ grbl' = [grbl EXCEPT !.ser = "open",
                                         !.running = TRUE,
                                         !.rx = Append(@, RxStarted),
                                         !.tx = Append(@, TxStarted),
                                         !.opens = @ + 1,
                                         !.connect_pc = "settle"]
    /\ UNCHANGED <<state, job_vars>>

\* connect(), lines 41-44: after the settle time reset_input_buffer, the
\* wake write and flush on self.ser, outside any try
connect_wake(io_ok) ==
    /\ grbl.connect_pc = "settle"
    /\ grbl' = [grbl EXCEPT !.connect_pc = "idle",
                            !.answer = IF grbl.ser = "open" /\ io_ok
                                       THEN "returned" ELSE "raised"]
    /\ UNCHANGED <<state, connected, job_vars>>

\* send_line: dropped when not connected, else onto the queue
send_line ==
    /\ grbl.submitted < MaxSent
    /\ grbl' = [grbl EXCEPT !.submitted = @ + 1,
                            !.tx_queue = IF connected /\ grbl.ser # "none"
                                         THEN Append(@, grbl.submitted + 1) ELSE @]
    /\ UNCHANGED <<state, connected, job_vars>>

\* how the byte of a real-time command shows on the wire
RealtimeByte == 0 - grbl.submitted

\* the real-time bytes on the wire so far
RealtimeWritten == Len(SelectSeq(grbl.wire, LAMBDA x : x <= 0))

\* the queued lines on the wire so far, in the order written
WireLines == SelectSeq(grbl.wire, LAMBDA x : x > 0)

\* a real-time command that goes onto the line queue like a line
request_status_queued(io_ok) ==
    /\ connected /\ grbl.ser # "none"
    /\ io_ok
    /\ RealtimeWritten < MaxRealtime
    /\ grbl' = [grbl EXCEPT !.tx_queue = Append(@, RealtimeByte)]
    /\ UNCHANGED <<state, connected, job_vars>>

\* request_status: realtime_command("?"), a write and flush on self.ser from
\* the caller's thread; a failed write closes the link
request_status(io_ok) ==
    /\ connected /\ grbl.ser # "none"
    /\ IF grbl.ser = "open" /\ io_ok
       THEN /\ RealtimeWritten < MaxRealtime
            /\ grbl' = [grbl EXCEPT !.wire = Append(@, RealtimeByte)]
            /\ UNCHANGED connected
       ELSE grbl' = Closed(grbl) /\ connected' = FALSE
    /\ UNCHANGED <<state, job_vars>>

\* _tx_loop, line 86: the loop condition
tx_loop_head(w) ==
    /\ w \in TxWorkers
    /\ grbl.tx[w].pc = "loop"
    /\ grbl' = [grbl EXCEPT !.tx[w].pc = IF Serving THEN "get" ELSE "exit"]
    /\ UNCHANGED <<state, connected, job_vars>>

\* _tx_loop, lines 87-90: a line off the queue, or Empty after the timeout
tx_loop_get(w) ==
    /\ w \in TxWorkers
    /\ grbl.tx[w].pc = "get"
    /\ IF grbl.tx_queue = <<>>
       THEN grbl' = [grbl EXCEPT !.tx[w].pc = "loop"]
       ELSE grbl' = [grbl EXCEPT !.tx[w] = [pc |-> "write", line |-> Head(grbl.tx_queue)],
                                 !.tx_queue = Tail(@)]
    /\ UNCHANGED <<state, connected, job_vars>>

\* _tx_loop, lines 91-96: the write to self.ser; a failure closes the link
\* and ends the worker
tx_loop_write(w, io_ok) ==
    /\ w \in TxWorkers
    /\ grbl.tx[w].pc = "write"
    /\ IF grbl.ser = "open" /\ io_ok
       THEN /\ grbl' = [grbl EXCEPT !.wire = Append(@, grbl.tx[w].line),
                                    !.tx[w] = TxStarted]
            /\ UNCHANGED connected
       ELSE /\ grbl' = [Closed(grbl) EXCEPT !.tx[w] = [pc |-> "exit", line |-> 0]]
            /\ connected' = FALSE
    /\ UNCHANGED <<state, job_vars>>

\* the state words of the frames the device sends while the workers are
\* followed
LinkWords == {"Run", "Alarm"}

\* what a readline() brings: a failure, nothing within the timeout, a frame
ReadOutcomes == {"error", "empty"} \cup LinkWords

\* _rx_loop, line 73: the loop condition
rx_loop_head(w) ==
    /\ w \in RxWorkers
    /\ grbl.rx[w].pc = "loop"
    /\ grbl' = [grbl EXCEPT !.rx[w].pc = IF Serving THEN "read" ELSE "exit"]
    /\ UNCHANGED <<state, connected, job_vars>>

\* _rx_loop, lines 74-80: readline on self.ser; a failure closes the link
\* and ends the worker
rx_loop_read(w, r) ==
    /\ w \in RxWorkers
    /\ grbl.rx[w].pc = "read"
    /\ IF grbl.ser # "open" \/ r = "error"
       THEN /\ grbl' = [Closed(grbl) EXCEPT !.rx[w].pc = "exit"]
            /\ connected' = FALSE
       ELSE IF r = "empty"
            THEN /\ grbl' = [grbl EXCEPT !.rx[w].pc = "loop"]
                 /\ UNCHANGED connected
            ELSE /\ grbl.received < MaxFrames
                 /\ grbl' = [grbl EXCEPT !.received = @ + 1,
                                         !.rx[w] = [pc |-> "deliver",
                                                    frame |-> grbl.received + 1,
                                                    word |-> r]]
                 /\ UNCHANGED connected
    /\ UNCHANGED <<state, job_vars>>

\* _rx_loop, lines 81-83: the parsed frame to the status callback
\* (_ingest_status)
rx_loop_deliver(w) ==
    /\ w \in RxWorkers
    /\ grbl.rx[w].pc = "deliver"
    /\ state' = [state EXCEPT !.status = ReportedStatus(grbl.rx[w].word)]
    /\ grbl' = [grbl EXCEPT !.delivered = grbl.rx[w].frame,
                            !.rx[w] = RxStarted]
    /\ UNCHANGED <<connected, job_vars>>

(***************************************************************************)
(* Specifications.                                                         *)
(***************************************************************************)
\* what runs whether or not the link is up
Controller(files, tool_ids) ==
    \/ \E f \in files \cup {MissingFile}, t \in tool_ids : start_job(f, t)
    \/ start_job_tool
    \/ start_job_spawn
    \/ \E e \in Executors : run_job_head(e)
    \/ \E e \in Executors : run_job_gate(e)
    \/ \E e \in Executors : run_job_post(e)
    \/ \E e \in Executors : run_job_consume(e)
    \/ \E e \in Executors : run_job_final(e)
    \/ \E e \in Executors : run_job_vacuum_off(e)
    \/ \E io_ok \in BOOLEAN : pause(io_ok)
    \/ \E io_ok \in BOOLEAN : resume(io_ok)
    \/ \E io_ok \in BOOLEAN : stop_signal(io_ok)
    \/ stop_lock
    \/ home

\* the files jobs are started on while the link comes and goes
LinkFiles == {"a", "b"}

\* what needs the link
Link ==
    \/ connect
    \/ close
    \/ \E w \in StateWords : ingest_status(w)
    \/ \E e \in Executors : run_job_send(e)
    \/ \E e \in Executors : run_job_setline(e)

Next == Controller(LinkFiles, {0}) \/ Link

\* the controller with the serial link coming and going
Spec == Init /\ [][Next]_vars

\* simulation mode (Config.simulation): connect() returns at once, the link
\* is never connected
SimFiles == {"a", "b", "bad", "ff"}

NextSim == Controller(SimFiles, ToolIds)

SpecSim == Init /\ [][NextSim]_vars

\* a job run in simulation on the files with spindle directives and comments
RunFiles == {"m", "c"}

NextRun == Controller(RunFiles, {0})

SpecRun == Init /\ [][NextRun]_vars

\* simulation with the jog and work-offset commands next to a job
OpsFiles == {"a"}

NextOps ==
    \/ Controller(OpsFiles, {0})
    \/ \E axis \in JogAxes, delta \in JogDeltas : jog(axis, delta)
    \/ \E offset \in Offsets : set_work_offset(offset)

SpecOps == Init /\ [][NextOps]_vars

\* the preview of every text of up to MaxPreviewLines lines
InitPreview ==
    /\ Constructed
    /\ preview \in { [NoPreview EXCEPT !.pc = "request", !.text = t] :
                       t \in PreviewTexts }

NextPreview == preview_file

SpecPreview == InitPreview /\ [][NextPreview]_vars

\* the link with its workers; the controller reduced to the calls it makes
NextLink ==
    \/ \E io_ok \in BOOLEAN : connect_open(io_ok)
    \/ \E io_ok \in BOOLEAN : connect_wake(io_ok)
    \/ send_line
    \/ \E io_ok \in BOOLEAN : request_status(io_ok)
    \/ \E w \in TxWorkers : tx_loop_head(w)
    \/ \E w \in TxWorkers : tx_loop_get(w)
    \/ \E w \in TxWorkers, io_ok \in BOOLEAN : tx_loop_write(w, io_ok)
    \/ \E w \in RxWorkers : rx_loop_head(w)
    \/ \E w \in RxWorkers, r \in ReadOutcomes : rx_loop_read(w, r)
    \/ \E w \in RxWorkers : rx_loop_deliver(w)

SpecLink == Init /\ [][NextLink]_vars

(***************************************************************************)
(* Properties.                                                             *)
(***************************************************************************)
\* every field of the controller other than the answer of the call
ControllerState == <<state, stop_flag, vacuum, vfd, move_tracker, connected,
                     job_threads, sj, stop_pc>>

JobRequests == (StoredFiles \cup {MissingFile}) \X ToolIds

\* C1, as stated: every start_job call made while the status is Running or
\* Paused answers InvalidState ("already running") and changes nothing.
C1_AlwaysInvalidState ==
    [][\A r \in JobRequests :
          (start_job(r[1], r[2]) /\ state.status \in {"Running", "Paused"})
          => (sj_result' = "InvalidState" /\ UNCHANGED ControllerState)]_vars

\* C1, amended: a start_job call made while the status is Running or Paused
\* fails and changes nothing; it answers InvalidState when the file exists
\* and NotFound when it does not (the existence check comes first).
C1_RejectedWhileRunning ==
    [][\A r \in JobRequests :
          (start_job(r[1], r[2]) /\ state.status \in {"Running", "Paused"})
          => /\ sj_result' = IF r[1] \in StoredFiles THEN "InvalidState" ELSE "NotFound"
             /\ UNCHANGED ControllerState]_vars

\* a start_job call was refused as "already running" while a job is paused
C1_Witness ==
    /\ sj_result = "InvalidState"
    /\ state.status = "Paused"
    /\ \E e \in Executors : job_threads[e].pc = "gate"

\* C2: an executor that stop() found active leaves its loop with the status
\* set to Stopped.
C2_StoppedJobEndsStopped ==
    [][\A e \in Executors :
          (job_threads[e].stopped # "no" /\ run_job_final(e))
          => state'.status = "Stopped"]_vars

\* C3: after stop() an executor processes no line other than the one that
\* was already past the stop checks.
C3_StoppedJobProcessesNoLine ==
    \A e \in Executors :
        job_threads[e].stopped = "yes" => job_threads[e].pc \notin {"xfer", "setline"}

\* the 1-based index of the last line that is not blank (0: there is none)
RECURSIVE LastNonBlank(_, _)
LastNonBlank(lines, i) ==
    IF i = 0 THEN 0
    ELSE IF Strip(lines[i]) # <<>> THEN i ELSE LastNonBlank(lines, i - 1)

\* C4: in simulation a job that no stop() reached ends: no executor dies in
\* its loop, and at loop exit the status becomes Complete with total_lines
\* the file's line count and current_line the index of its last non-blank
\* line.
C4_JobCompletes ==
    [][\A e \in Executors :
          /\ job_threads'[e].pc # "crashed"
          /\ (job_threads[e].stopped = "no" /\ run_job_final(e))
             => /\ state'.status = "Complete"
                /\ state'.total_lines = line_count(FileText[job_threads[e].file])
                /\ state'.current_line =
                       LastNonBlank(Lines[job_threads[e].file],
                                    Len(Lines[job_threads[e].file]))]_vars

\* the step in which a start_job call is accepted
AcceptsJob == sj.pc = "idle" /\ sj'.pc = "set_tool"

\* C5: an accepted start_job sets current_line to 0, and no other step
\* lowers it.
C5_CurrentLineMonotone ==
    [][IF AcceptsJob
       THEN state'.current_line = 0
       ELSE state'.current_line >= state.current_line]_vars

\* C6: 0 <= current_line <= total_lines in every reachable state.
C6_CurrentLineInRange ==
    /\ 0 <= state.current_line
    /\ state.current_line <= state.total_lines

\* C7: pause() changes the status only from Running, to Paused, and resume()
\* only from Paused, to Running; neither changes any other field of the
\* machine state, so pause() then resume() on a running job leaves it Running.
C7_PauseResume ==
    [][\A io_ok \in BOOLEAN :
          /\ pause(io_ok) =>
                state' = [state EXCEPT !.status =
                             IF state.status = "Running" THEN "Paused" ELSE state.status]
          /\ resume(io_ok) =>
                state' = [state EXCEPT !.status =
                             IF state.status = "Paused" THEN "Running" ELSE state.status]
          /\ (state.status = "Running" /\ pause(io_ok))
                => [state' EXCEPT !.status =
                       IF @ = "Paused" THEN "Running" ELSE @] = state]_vars

\* pause() has acted on a running job: the status is Paused (in simulation
\* nothing else sets it) and the executor waits in the pause gate
C7_Witness ==
    /\ state.status = "Paused"
    /\ ~connected
    /\ \E e \in Executors : job_threads[e].pc = "gate" /\ job_threads[e].stopped = "no"

\* C8: stop() changes the status only when it is Running or Paused.
C8_StopOnlyFromActive ==
    [][(stop_lock /\ state.status \notin {"Running", "Paused"})
          => state'.status = state.status]_vars

\* C9: no line of a toolpath ends the executor: a thread never dies in its
\* loop.
C9_MalformedLineSkipped ==
    \A e \in Executors : job_threads[e].pc # "crashed"

\* clamp(x, lo, hi)
Clamp(x, lo, hi) == IF x < lo THEN lo ELSE IF x > hi THEN hi ELSE x

\* C10: the voltage the sink holds is clamp(rpm, min_rpm, max_rpm) / max_rpm
\* * vref for the rpm it was applied from, and lies in [0, vref].
C10_ShimVoltage ==
    /\ 0 <= vfd.volts
    /\ vfd.volts <= dac_vref_mV
    /\ vfd.volts * spindle_max_rpm =
           Clamp(vfd.rpm, spindle_min_rpm, spindle_max_rpm) * dac_vref_mV

\* C11: when the executor has processed a line whose spindle directive is M5
\* (after an M3 S12000 line), spindle_dir is Off and the voltage written to
\* the sink for that line is 0 V.
C11_M5WritesZeroVolts ==
    [][\A e \in Executors :
          (/\ run_job_post(e)
           /\ job_threads'[e].pc = "xfer"
           /\ SpindleDirOf(Upper(Strip(RawLine(job_threads[e])))) = "OFF")
          => (state'.spindle_dir = "OFF" /\ vfd'.volts = 0)]_vars

\* C12: for a line an executor processes while the link is connected, the
\* sink is written (direction, then voltage) in the step that takes the
\* thread to the transfer, before the enqueue; the enqueue writes neither the
\* sink nor the state; current_line becomes the line's index in a step after
\* the enqueue, and in no other step of the thread on the connected path.
C12_SinkThenEnqueueThenLine ==
    [][\A e \in Executors :
          LET t == job_threads[e]
              u == job_threads'[e]
          IN  /\ (t.pc # "xfer" /\ u.pc = "xfer")
                 => /\ t.pc = "post"
                    /\ vfd'.calls = <<"set_direction", "set_voltage">>
                    /\ vfd'.dir = state'.spindle_dir
                    /\ vfd'.rpm = state'.spindle_rpm
                    /\ state'.current_line = state.current_line
              /\ (t.pc # "setline" /\ u.pc = "setline")
                 => /\ t.pc = "xfer"
                    /\ connected
                    /\ UNCHANGED <<state, vfd>>
              /\ (t.pc = "setline" /\ u # t /\ u.pc # "setline")
                 => /\ state'.current_line = t.idx
                    /\ UNCHANGED vfd]_vars

\* an executor has enqueued a line on the connected link after the sink was
\* written for it, and has yet to write current_line
C12_Witness ==
    /\ connected
    /\ \E e \in Executors :
          /\ job_threads[e].pc = "setline"
          /\ job_threads[e].file = "b"
          /\ job_threads[e].idx = 1
          /\ state.current_line = 0
          /\ vfd.calls = <<"set_direction", "set_voltage">>
          /\ vfd.rpm = 30000

\* whether a sequence of numbers is strictly increasing
Increasing(q) == \A i, j \in 1..Len(q) : i < j => q[i] < q[j]

\* C13: the lines written to the device appear in the order in which they
\* were submitted to send_line, none of them twice.
C13_WireInSubmissionOrder == Increasing(WireLines)

\* the workers that have not left their loop
AliveRx(g) == Cardinality({w \in 1..Len(g.rx) : g.rx[w].pc # "exit"})
AliveTx(g) == Cardinality({w \in 1..Len(g.tx) : g.tx[w].pc # "exit"})

C15_IOErrorsCloseSilently ==
    [][/\ grbl'.answer # "raised"
       /\ (\/ connect_open(FALSE) /\ ~connected
           \/ connect_wake(FALSE)
           \/ request_status(FALSE)
           \/ \E w \in TxWorkers : tx_loop_write(w, FALSE)
           \/ \E w \in RxWorkers : rx_loop_read(w, "error"))
          => ~connected']_vars

\* the status a state word stands for, by the table of the link
WordStatus(word) ==
    IF word = "Run" THEN "Running"
    ELSE IF word = "Hold" THEN "Paused"
    ELSE IF word = "Home" THEN "Homing"
    ELSE IF word = "Alarm" THEN "Alarm"
    ELSE "Idle"

\* C16: when a frame is ingested the status becomes the one its state word
\* stands for, whatever it was, and a frame is never ingested after one that
\* was received later.
C16_FramesSetStatusInOrder ==
    [][\A w \in RxWorkers :
          rx_loop_deliver(w)
          => /\ state'.status = WordStatus(grbl.rx[w].word)
             /\ grbl.rx[w].frame > grbl.delivered]_vars

\* C17: in simulation set_work_offset(o) makes snapshot().work_offset equal
\* o and leaves every other field of the state unchanged, in every status
\* and next to a running executor.
C17_WorkOffsetRoundTrip ==
    [][\A o \in Offsets :
          set_work_offset(o)
          => /\ snapshot'.work_offset = o
             /\ [snapshot' EXCEPT !.work_offset = state.work_offset] = state]_vars

\* the offset was set while a job was paused in its second line
C17_Witness ==
    /\ snapshot.work_offset = <<1, 2, 3>>
    /\ snapshot.status = "Paused"
    /\ snapshot.machine_pos = <<0, 0, 0>>
    /\ \E e \in Executors : job_threads[e].pc = "gate" /\ job_threads[e].idx = 2

\* the component of machine_pos an axis letter names (0: none)
AxisComponent(axis) ==
    IF axis \in {<<"x">>, <<"X">>} THEN 1
    ELSE IF axis \in {<<"y">>, <<"Y">>} THEN 2
    ELSE IF axis \in {<<"z">>, <<"Z">>} THEN 3 ELSE 0

\* C18: in simulation jog(axis, delta) with axis X, Y or Z in either case
\* adds delta to that component of machine_pos and changes no other field of
\* the state; with any other axis it fails with the invalid-argument error
\* and changes nothing.
C18_JogMovesOneAxis ==
    [][\A axis \in JogAxes, delta \in JogDeltas :
          jog(axis, delta)
          => IF AxisComponent(axis) # 0
             THEN /\ jog_call'.result = "ok"
                  /\ state' = [state EXCEPT
                                  !.machine_pos[AxisComponent(axis)] = @ + delta]
             ELSE /\ jog_call'.result = "InvalidArgument"
                  /\ UNCHANGED <<state, stop_flag, vacuum, vfd, move_tracker,
                                 connected, job_threads, sj, stop_pc, sj_result>>]_vars

\* a jog along Y has acted on the position a finished job left
C18_Witness ==
    /\ jog_call.result = "ok"
    /\ state.machine_pos = <<10, 2, 0>>
    /\ state.status = "Complete"

\* C19: a job run alone in simulation, without a stop, on a file for which
\* parse_file returns at least one segment leaves machine_pos at the end of
\* the last segment.
C19_TrackerFollowsParser ==
    [][\A e \in Executors :
          LET p == parse_file(FileText[job_threads[e].file])
          IN  (/\ run_job_final(e)
               /\ Len(job_threads) = 1
               /\ job_threads[e].stopped = "no"
               /\ p.ok
               /\ p.segments # <<>>)
              => state'.machine_pos = p.segments[Len(p.segments)].end]_vars

\* the first token of a physical line after comment stripping and trimming,
\* in upper case (empty: the line has none)
FirstToken(raw) ==
    LET toks == Split(Upper(Strip(Before(Before(raw, ";"), "("))))
    IN  IF toks = <<>> THEN <<>> ELSE toks[1]

\* the number of physical lines whose first token is exactly G0 or G1
RECURSIVE MotionLines(_)
MotionLines(lines) ==
    IF lines = <<>> THEN 0
    ELSE (IF FirstToken(Head(lines)) \in {<<"G","0">>, <<"G","1">>} THEN 1 ELSE 0)
         + MotionLines(Tail(lines))

\* C20: parse_file returns as many segments as the text has physical lines
\* whose first token is exactly G0 or G1.
C20_SegmentPerMotionLine ==
    preview.pc = "done"
    => /\ preview.ok
       /\ Len(preview.segments) = MotionLines(SplitLines(preview.text))

\* a <= b on floats: false when either side is nan
FLe(a, b) == a # NaN /\ b # NaN /\ a <= b

\* C21: the Preview parse_file returns has bbox_min <= start <= bbox_max and
\* bbox_min <= end <= bbox_max on every axis of every segment and
\* bbox_min <= bbox_max; with no segment both corners are the zero vector.
C21_BBoxContainsSegments ==
    (preview.pc = "done" /\ preview.ok)
    => /\ \A i \in 1..3 : FLe(preview.bbox_min[i], preview.bbox_max[i])
       /\ \A k \in 1..Len(preview.segments) : \A i \in 1..3 :
             /\ FLe(preview.bbox_min[i], preview.segments[k].start[i])
             /\ FLe(preview.segments[k].start[i], preview.bbox_max[i])
             /\ FLe(preview.bbox_min[i], preview.segments[k].end[i])
             /\ FLe(preview.segments[k].end[i], preview.bbox_max[i])
       /\ (preview.segments = <<>>
           => preview.bbox_min = <<0, 0, 0>> /\ preview.bbox_max = <<0, 0, 0>>)

\* the distance mode after the tokens of a line read left to right: the last
\* G90 or G91 token decides, a line with neither keeps the mode
RECURSIVE ModeByLastToken(_, _)
ModeByLastToken(tokens, absolute) ==
    IF tokens = <<>> THEN absolute
    ELSE ModeByLastToken(Tail(tokens),
             IF Head(tokens) = <<"G","9","0">> THEN TRUE
             ELSE IF Head(tokens) = <<"G","9","1">> THEN FALSE
             ELSE absolute)

\* the distance mode after the lines of a text, each line's last token deciding
RECURSIVE ModeAfter(_, _)
ModeAfter(lines, absolute) ==
    IF lines = <<>> THEN absolute
    ELSE ModeAfter(Tail(lines),
             ModeByLastToken(Split(Upper(Strip(Before(Before(Head(lines), ";"), "(")))),
                             absolute))

\* the Move Tracker after consuming the lines of a text as the executor
\* hands them over
RECURSIVE TrackerAfter(_, _)
TrackerAfter(lines, tr) ==
    IF lines = <<>> THEN tr
    ELSE TrackerAfter(Tail(lines), consume(tr, Strip(Head(lines))).tr)

\* C22: on a line with both G90 and G91 the token that occurs last decides the
\* distance mode, for the parser and for the Move Tracker: 'G91 G90' leaves
\* both in absolute mode.
C22_LastModeTokenWins ==
    (preview.pc = "done" /\ preview.ok)
    => LET lines == SplitLines(preview.text)
       IN  /\ preview.absolute = ModeAfter(lines, TRUE)
           /\ TrackerAfter(lines, NewTracker).absolute = ModeAfter(lines, TRUE)

\* a step of executor e in simulation
ExecutorStep(e) ==
    \/ run_job_head(e)
    \/ run_job_gate(e)
    \/ run_job_post(e)
    \/ run_job_consume(e)
    \/ run_job_final(e)
    \/ run_job_vacuum_off(e)

\* an executor that has passed the pause gate for the line it is at
PastGate(t) == t.pc \in {"post", "xfer"}

\* each executor on its own: at the top of its loop or at the gate it does
\* not get past the gate and writes neither current_line nor machine_pos
\* while the status is Paused and the stop flag is clear, and every step of
\* it that writes one of them ends a line and puts it back at the top
GateHoldsExecutor ==
    [][\A e \in Executors :
          LET t == job_threads[e]
              u == job_threads'[e]
              wrote == \/ state'.current_line # state.current_line
                       \/ state'.machine_pos # state.machine_pos
          IN  ExecutorStep(e)
              => /\ (state.status = "Paused" /\ ~stop_flag /\ t.pc \in {"head", "gate"})
                    => (u.pc \in {"gate", "final"} /\ ~wrote)
                 /\ wrote => (t.pc = "xfer" /\ u.pc = "head" /\ u.idx = t.idx + 1)]_vars

C24_RealtimeBypassesQueue ==
    [][\A io_ok \in BOOLEAN :
          (/\ request_status(io_ok)
           /\ grbl.ser = "open"
           /\ io_ok)
          => /\ grbl'.wire = Append(grbl.wire, RealtimeByte)
             /\ grbl'.tx_queue = grbl.tx_queue
             /\ grbl'.tx = grbl.tx
             /\ connected']_vars

\* C24 witness: the byte of a real-time command called after two lines were
\* submitted is on the wire while both lines are still on the queue
C24_Witness ==
    /\ connected
    /\ grbl.wire = <<0 - 2>>
    /\ grbl.tx_queue = <<1, 2>>

\* the steps that are I/O
IOSteps == {"file read", "serial write", "peripheral write", "tool lookup", "sleep"}

\* C25: no operation performs I/O while it holds the machine-state lock: what
\* a call did between taking and releasing the lock are reads and writes of
\* state fields only.
C25_NoIOUnderLock ==
    \A i \in 1..Len(sj.under_lock) : sj.under_lock[i] \notin IOSteps

\* the tool ids of a request that name no row of the tools table
UnknownTools == { t \in ToolIds : t # 0 /\ t \notin DOMAIN Tools }

\* C26: start_job on a stored file with a tool_id that names no stored tool,
\* made while no job is Running or Paused, answers NotFound and starts
\* nothing: the status, the vacuum and the executors stay as they were.
C26_UnknownToolNotFound ==
    [][\A f \in StoredFiles, t \in UnknownTools :
          (start_job(f, t) /\ state.status \notin {"Running", "Paused"})
          => (sj_result' = "NotFound" /\ UNCHANGED ControllerState)]_vars

\* C27: at most one job executor thread is alive at any time.
C27_OneExecutorAlive ==
    Cardinality({ e \in Executors : Alive(job_threads[e]) }) <= 1

\* C28: the vacuum is on whenever a spawned executor has not yet left its
\* line loop.
C28_VacuumOnWhileInLoop ==
    (\E e \in Executors : InLoop(job_threads[e])) => vacuum

====
